---- MODULE Spec2Model ----
(***************************************************************************)
(* Model of the Vulkan query pool implementation (vk_query.cpp):           *)
(* QueryPool::Create, PalQueryPool and TimestampQueryPool.                 *)
(*                                                                         *)
(* One pool exists at a time.  The operations of the pool are actions; the *)
(* external collaborators (host allocator, PAL query pool backend, memory  *)
(* manager, the GPU) are inputs drawn with \E.                             *)
(*                                                                         *)
(* 64-bit words are sequences of four 16-bit limbs, most significant       *)
(* first, and 32-bit words sequences of two limbs, so that truncation to   *)
(* 32 bits is computed on the real width.                                  *)
(***************************************************************************)
EXTENDS Integers, Sequences, FiniteSets, TLC

\* ------------------------------------------------------------------ bounds
MaxDevices    == 2     \* NumPalDevices() ranges over 1..MaxDevices
MaxEntries    == 2     \* VkQueryPoolCreateInfo::queryCount ranges over 0..MaxEntries
MaxStart      == 1     \* startQuery ranges over 0..MaxStart
MaxQueryCount == 2     \* queryCount of GetResults / Reset ranges over 0..MaxQueryCount

\* ------------------------------------------------------------------ words
LimbMax == 2^16 - 1

\* (uint64_t) of a bool or a small number
Word64(n) == <<0, 0, 0, n>>
Word32(n) == <<0, n>>

\* static_cast<uint32_t>(uint64_t): the low 32 bits
TruncSaturate(v) == IF v[1] # 0 \/ v[2] # 0 THEN <<LimbMax, LimbMax>> ELSE <<v[3], v[4]>>
Trunc32(v) == <<v[3], v[4]>>

\* The reserved not-ready value of a timestamp slot (vk_query.h)
TimestampNotReady == <<LimbMax, LimbMax, LimbMax, LimbMax>>

SmallValue == <<0, 0, 0, 5>>
BigValue   == <<0, 1, 0, 7>>          \* 2^32 + 7
\* the 64-bit words a timestamp slot can hold in the model
Values == {TimestampNotReady, SmallValue, BigValue}

\* sizeof(uint64_t), sizeof(uint32_t)
SizeofU64 == 8
SizeofU32 == 4

\* ------------------------------------------------------------------ statuses
VK_SUCCESS                     == "VK_SUCCESS"
VK_NOT_READY                   == "VK_NOT_READY"
VK_ERROR_OUT_OF_HOST_MEMORY    == "VK_ERROR_OUT_OF_HOST_MEMORY"
VK_ERROR_OUT_OF_DEVICE_MEMORY  == "VK_ERROR_OUT_OF_DEVICE_MEMORY"
VK_ERROR_INITIALIZATION_FAILED == "VK_ERROR_INITIALIZATION_FAILED"

\* results of the PAL backend
PalSuccess == "Success"
PalErrors  == {"ErrorOutOfMemory", "ErrorOutOfGpuMemory", "ErrorUnknown"}

\* PalToVkResult (vk_conv.h): a backend result becomes the API status of the
\* same kind
PalToVkResult(r) ==
    CASE r = "Success"             -> VK_SUCCESS
      [] r = "NotReady"            -> VK_NOT_READY
      [] r = "ErrorOutOfMemory"    -> VK_ERROR_OUT_OF_HOST_MEMORY
      [] r = "ErrorOutOfGpuMemory" -> VK_ERROR_OUT_OF_DEVICE_MEMORY
      [] OTHER                     -> VK_ERROR_INITIALIZATION_FAILED

\* ------------------------------------------------------------------ query kinds and flags
VK_QUERY_TYPE_OCCLUSION           == "OCCLUSION"
VK_QUERY_TYPE_PIPELINE_STATISTICS == "PIPELINE_STATISTICS"
VK_QUERY_TYPE_TIMESTAMP           == "TIMESTAMP"
VK_QUERY_TYPE_TRANSFORM_FEEDBACK_STREAM_EXT == "TRANSFORM_FEEDBACK_STREAM"
QueryTypes == {VK_QUERY_TYPE_OCCLUSION, VK_QUERY_TYPE_PIPELINE_STATISTICS,
               VK_QUERY_TYPE_TIMESTAMP, VK_QUERY_TYPE_TRANSFORM_FEEDBACK_STREAM_EXT}

VK_QUERY_RESULT_64_BIT                == "64_BIT"
VK_QUERY_RESULT_WAIT_BIT              == "WAIT"
VK_QUERY_RESULT_WITH_AVAILABILITY_BIT == "WITH_AVAILABILITY"
VK_QUERY_RESULT_PARTIAL_BIT           == "PARTIAL"
ResultFlags == SUBSET {VK_QUERY_RESULT_64_BIT, VK_QUERY_RESULT_WAIT_BIT,
                       VK_QUERY_RESULT_WITH_AVAILABILITY_BIT, VK_QUERY_RESULT_PARTIAL_BIT}

DefaultDeviceIndex == 0

Min(a, b) == IF a < b THEN a ELSE b
Max(a, b) == IF a > b THEN a ELSE b

\* ------------------------------------------------------------------ calls to collaborators
\* One call made to a collaborator: the call, the device replica it is made
\* for (-1 when it has none) and its outcome or argument.
Ev(op, dev, res) == [op |-> op, dev |-> dev, res |-> res]

\* The resources held after the calls of log, starting from held.  A resource
\* is "host" (the block of AllocApiObject), "gpu" (the InternalMemory) or
\* "pal0", "pal1", ... (the backend object of a replica).
PalName(d) == "pal" \o ToString(d)

RECURSIVE HeldAfter(_, _)
HeldAfter(held, log) ==
    IF log = <<>> THEN held
    ELSE LET e == Head(log)
             h == CASE e.op = "AllocApiObject" /\ e.res = "ok"          -> held \cup {"host"}
                    [] e.op = "FreeApiObject" /\ e.res = "block"        -> held \ {"host"}
                    [] e.op = "CreateQueryPool" /\ e.res = PalSuccess   -> held \cup {PalName(e.dev)}
                    [] e.op = "IQueryPool::Destroy"                     -> held \ {PalName(e.dev)}
                    [] e.op = "AllocAndBindGpuMem" /\ e.res = VK_SUCCESS -> held \cup {"gpu"}
                    [] e.op = "AllocGpuMem" /\ e.res = VK_SUCCESS       -> held \cup {"gpu"}
                    [] e.op = "FreeGpuMem" /\ e.res = "allocated"       -> held \ {"gpu"}
                    [] OTHER                                            -> held
         IN HeldAfter(h, Tail(log))

\* how often log releases resource r
RECURSIVE Releases(_, _)
Releases(log, r) ==
    IF log = <<>> THEN 0
    ELSE LET e == Head(log)
             hit == \/ r = "host" /\ e.op = "FreeApiObject" /\ e.res = "block"
                    \/ r = "gpu" /\ e.op = "FreeGpuMem" /\ e.res = "allocated"
                    \/ e.op = "IQueryPool::Destroy" /\ r = PalName(e.dev)
         IN (IF hit THEN 1 ELSE 0) + Releases(Tail(log), r)

HasEv(log, op, dev, res) == \E i \in 1..Len(log) : log[i] = Ev(op, dev, res)
HasOp(log, op) == \E i \in 1..Len(log) : log[i].op = op

\* ------------------------------------------------------------------ PalQueryPool::Create / Destroy
NoPalPools(N) == [d \in 0..(N - 1) |-> FALSE]

\* The loop that creates one PAL query pool per device: it stops at the first
\* result that is not Success.  st is [palResult, result, pools, log];
\* CreateQueryPool fails on replica failAt (-1: on none) with ctorErr and
\* leaves pPalQueryPools[failAt] null.
RECURSIVE CreatePalPoolsNoStop(_, _, _, _, _)
CreatePalPoolsNoStop(N, failAt, ctorErr, deviceIdx, st) ==
    IF deviceIdx < N
    THEN LET r == IF deviceIdx = failAt THEN ctorErr ELSE PalSuccess
         IN CreatePalPoolsNoStop(N, failAt, ctorErr, deviceIdx + 1,
                [palResult |-> r,
                 result    |-> IF r = PalSuccess THEN st.result ELSE PalToVkResult(r),
                 pools     |-> IF r = PalSuccess THEN [st.pools EXCEPT ![deviceIdx] = TRUE]
                                                 ELSE st.pools,
                 log       |-> Append(st.log, Ev("CreateQueryPool", deviceIdx, r))])
    ELSE st

RECURSIVE CreatePalPools(_, _, _, _, _)
CreatePalPools(N, failAt, ctorErr, deviceIdx, st) ==
    IF deviceIdx < N /\ st.palResult = PalSuccess
    THEN LET r == IF deviceIdx = failAt THEN ctorErr ELSE PalSuccess
         IN CreatePalPools(N, failAt, ctorErr, deviceIdx + 1,
                [palResult |-> r,
                 result    |-> PalToVkResult(r),
                 pools     |-> IF r = PalSuccess THEN [st.pools EXCEPT ![deviceIdx] = TRUE]
                                                 ELSE st.pools,
                 log       |-> Append(st.log, Ev("CreateQueryPool", deviceIdx, r))])
    ELSE st

\* The loop that destroys every non-null PAL query pool, replica 0 first
RECURSIVE DestroyPalPoolsFrom(_, _, _)
DestroyPalPoolsFrom(N, pools, deviceIdx) ==
    IF deviceIdx < N
    THEN (IF pools[deviceIdx] THEN <<Ev("IQueryPool::Destroy", deviceIdx, "")>> ELSE <<>>)
         \o DestroyPalPoolsFrom(N, pools, deviceIdx + 1)
    ELSE <<>>

DestroyPalPoolsNone(N, pools) == <<>>
DestroyPalPools(N, pools) == DestroyPalPoolsFrom(N, pools, 0)

\* PalQueryPool::Create.  Inputs: sizeRes, the result GetQueryPoolSize
\* reports; hostOk, whether AllocApiObject returns a block; failAt/ctorErr,
\* the replica whose CreateQueryPool fails and its error; gpuRes, the status
\* of AllocAndBindGpuMem.  The outcome is [result, log, pools, written,
\* memAllocated]: the status returned, the calls made, the non-null replicas,
\* whether *ppQueryPool was written, whether m_internalMem holds memory.
PalQueryPoolCreate(N, sizeRes, hostOk, failAt, ctorErr, gpuRes) ==
    LET sizeLog == <<Ev("GetQueryPoolSize", DefaultDeviceIndex, sizeRes)>>
    IN IF ~hostOk
       THEN [result |-> VK_ERROR_OUT_OF_HOST_MEMORY,
             log |-> sizeLog \o <<Ev("AllocApiObject", -1, "fail")>>,
             pools |-> NoPalPools(N), written |-> FALSE, memAllocated |-> FALSE]
       ELSE LET st0 == [palResult |-> sizeRes, result |-> VK_SUCCESS,
                        pools |-> NoPalPools(N),
                        log |-> sizeLog \o <<Ev("AllocApiObject", -1, "ok")>>]
                st1 == CreatePalPools(N, failAt, ctorErr, 0, st0)
                bind == st1.result = VK_SUCCESS
                result == IF bind THEN gpuRes ELSE st1.result
                log2 == IF bind THEN Append(st1.log, Ev("AllocAndBindGpuMem", -1, gpuRes))
                                ELSE st1.log
            IN IF result = VK_SUCCESS
               THEN [result |-> result, log |-> log2, pools |-> st1.pools,
                     written |-> TRUE, memAllocated |-> TRUE]
               ELSE [result |-> result,
                     log |-> log2 \o DestroyPalPools(N, st1.pools)
                                  \o <<Ev("FreeApiObject", -1, "block")>>,
                     pools |-> NoPalPools(N), written |-> FALSE, memAllocated |-> FALSE]

\* PalQueryPool::Destroy: the calls it makes
PalQueryPoolDestroyMemFirst(N, pools) ==
    <<Ev("FreeGpuMem", -1, "allocated")>>
    \o DestroyPalPools(N, pools)
    \o <<Ev("FreeApiObject", -1, "block")>>

PalQueryPoolDestroy(N, pools) ==
    DestroyPalPools(N, pools)
    \o <<Ev("FreeGpuMem", -1, "allocated"), Ev("FreeApiObject", -1, "block")>>

\* ------------------------------------------------------------------ TimestampQueryPool::Create / Destroy
\* FreeGpuMem(&internalMemory) and FreeApiObject(pMemory) as the failure path
\* and Destroy call them: on an InternalMemory that holds nothing and on a
\* null block they release nothing.
FreeGpuMemEv(allocated) == Ev("FreeGpuMem", -1, IF allocated THEN "allocated" ELSE "empty")
FreeApiObjectEv(nonNull) == Ev("FreeApiObject", -1, IF nonNull THEN "block" ELSE "null")

\* What a successful Create does to the descriptor storage behind the object
\* in the host block, where the record of replica d lies at
\* apiSize + viewSize * d: with entryCount > 0 it builds the buffer view of
\* every replica in its record; with entryCount = 0 it zero-fills
\* descriptorSizes.bufferView bytes from pViewMem, the record of replica 0.
ViewLog(N, entryCount) ==
    IF entryCount > 0
    THEN [i \in 1..N |-> Ev("CreateBufferViewSrds", i - 1, "")]
    ELSE <<Ev("memset", DefaultDeviceIndex, "bufferView")>>

\* TimestampQueryPool::Create.  Inputs: hostOk, whether AllocApiObject returns
\* a block; gpuRes, the status of AllocGpuMem (called only when entryCount > 0).
TimestampQueryPoolCreateLeaky(N, entryCount, hostOk, gpuRes) ==
    LET r1 == IF hostOk THEN VK_SUCCESS ELSE VK_ERROR_OUT_OF_HOST_MEMORY
        log1 == <<Ev("AllocApiObject", -1, IF hostOk THEN "ok" ELSE "fail")>>
        alloc == (r1 = VK_SUCCESS) /\ (entryCount > 0)
        result == IF alloc THEN gpuRes ELSE r1
        log2 == IF alloc THEN Append(log1, Ev("AllocGpuMem", -1, gpuRes)) ELSE log1
    IN [result |-> result, log |-> log2,
        written |-> result = VK_SUCCESS,
        memAllocated |-> alloc /\ gpuRes = VK_SUCCESS]

TimestampQueryPoolCreate(N, entryCount, hostOk, gpuRes) ==
    LET r1 == IF hostOk THEN VK_SUCCESS ELSE VK_ERROR_OUT_OF_HOST_MEMORY
        log1 == <<Ev("AllocApiObject", -1, IF hostOk THEN "ok" ELSE "fail")>>
        alloc == (r1 = VK_SUCCESS) /\ (entryCount > 0)
        result == IF alloc THEN gpuRes ELSE r1
        log2 == IF alloc THEN Append(log1, Ev("AllocGpuMem", -1, gpuRes)) ELSE log1
        allocated == alloc /\ gpuRes = VK_SUCCESS
    IN IF result = VK_SUCCESS
       THEN [result |-> result, log |-> log2 \o ViewLog(N, entryCount),
             written |-> TRUE, memAllocated |-> allocated]
       ELSE [result |-> result,
             log |-> log2 \o <<FreeGpuMemEv(allocated), FreeApiObjectEv(hostOk)>>,
             written |-> FALSE, memAllocated |-> FALSE]

\* TimestampQueryPool::Destroy: the calls it makes
TimestampQueryPoolDestroy(memAllocated) ==
    <<FreeGpuMemEv(memAllocated), FreeApiObjectEv(TRUE)>>

\* ------------------------------------------------------------------ TimestampQueryPool::GetResults / Reset
\* One store into the caller's buffer: made for destination slot `slot`, as
\* element `elem` of its record (pSlot[elem]), at byte offset `off` from
\* pData, `width` bytes wide, storing the word `val`.
Write(slot, elem, off, width, val) ==
    [slot |-> slot, elem |-> elem, off |-> off, width |-> width, val |-> val]

\* the number of bytes written per value and per query slot
QueryValueSize(flags) ==
    IF VK_QUERY_RESULT_64_BIT \in flags THEN SizeofU64 ELSE SizeofU32
QuerySlotSize(flags) ==
    QueryValueSize(flags) * (IF VK_QUERY_RESULT_WITH_AVAILABILITY_BIT \in flags THEN 2 ELSE 1)

\* queryCount = Min(queryCount, uint32_t(dataSize / Max(querySlotSize, stride)));
\* the quotient is below 2^32 for every dataSize of the model, so the cast
\* changes nothing here.
ClampQueryCountByStride(queryCount, dataSize, stride, flags) ==
    IF stride = 0 THEN queryCount ELSE Min(queryCount, dataSize \div stride)
ClampQueryCount(queryCount, dataSize, stride, flags) ==
    Min(queryCount, dataSize \div Max(QuerySlotSize(flags), stride))

\* srcSlotOffset = (dstSlot + startQuery) * GetSlotSize(); the operands of the
\* model are far below 2^32.
SrcSlotOffsetByStride(dstSlot, startQuery, slotSz, stride) == dstSlot * stride + startQuery * slotSz
SrcSlotOffset(dstSlot, startQuery, slotSz, stride) == (dstSlot + startQuery) * slotSz

\* the index in the sequence of 64-bit words of the word at a byte offset
WordIndex(off) == (off \div SizeofU64) + 1

\* The stores of one iteration of the loop over the slots: the value only if
\* the slot was ready, the availability word only if it was requested.
SlotWritesZeroFill(dstSlot, stride, flags, value, ready) ==
    LET w == QueryValueSize(flags)
        off == dstSlot * stride
        conv(v) == IF w = SizeofU64 THEN v ELSE Trunc32(v)
        bool(b) == IF w = SizeofU64 THEN Word64(IF b THEN 1 ELSE 0) ELSE Word32(IF b THEN 1 ELSE 0)
    IN <<Write(dstSlot, 0, off, w, IF ready THEN conv(value) ELSE conv(Word64(0)))>>
       \o (IF VK_QUERY_RESULT_WITH_AVAILABILITY_BIT \in flags
           THEN <<Write(dstSlot, 1, off + w, w, bool(ready))>> ELSE <<>>)

SlotWritesAlways(dstSlot, stride, flags, value, ready) ==
    LET w == QueryValueSize(flags)
        off == dstSlot * stride
        conv(v) == IF w = SizeofU64 THEN v ELSE Trunc32(v)
        bool(b) == IF w = SizeofU64 THEN Word64(IF b THEN 1 ELSE 0) ELSE Word32(IF b THEN 1 ELSE 0)
    IN <<Write(dstSlot, 0, off, w, conv(value))>>
       \o (IF VK_QUERY_RESULT_WITH_AVAILABILITY_BIT \in flags
           THEN <<Write(dstSlot, 1, off + w, w, bool(ready))>> ELSE <<>>)

SlotWrites(dstSlot, stride, flags, value, ready) ==
    LET w == QueryValueSize(flags)
        off == dstSlot * stride
        conv(v) == IF w = SizeofU64 THEN v ELSE Trunc32(v)
        bool(b) == IF w = SizeofU64 THEN Word64(IF b THEN 1 ELSE 0) ELSE Word32(IF b THEN 1 ELSE 0)
    IN (IF ready THEN <<Write(dstSlot, 0, off, w, conv(value))>> ELSE <<>>)
       \o (IF VK_QUERY_RESULT_WITH_AVAILABILITY_BIT \in flags
           THEN <<Write(dstSlot, 1, off + w, w, bool(ready))>> ELSE <<>>)

\* allReady &= ready
TrackAllReadyLast(allReady, ready) == ready
TrackAllReady(allReady, ready) == allReady /\ ready

\* if (allReady == false) result = VK_NOT_READY
TimestampResult(allReady) == IF allReady THEN VK_SUCCESS ELSE VK_NOT_READY

\* TimestampQueryPool::Reset on the mapped memory of one replica: the words
\* of the slots [startQuery, startQuery + queryCount) clamped to the pool.
\* words is the replica's memory as a sequence of 64-bit words.
ResetWordsOffByOne(words, entryCount, slotSz, startQuery, queryCount) ==
    LET count == Min(queryCount, entryCount - startQuery)
        first == WordIndex(slotSz * startQuery)
        queryDataSize == (slotSz * count) \div SizeofU64
    IN [i \in 1..Len(words) |->
            IF i > first /\ i < first + queryDataSize THEN TimestampNotReady ELSE words[i]]

\* The indices of the words Reset stores to: queryDataSize words from the
\* word at byte m_slotSize * startQuery, with queryCount clamped to
\* m_entryCount - startQuery.
ResetWordRangeNoClamp(entryCount, slotSz, startQuery, queryCount) ==
    LET first == WordIndex(slotSz * startQuery)
        queryDataSize == (slotSz * queryCount) \div SizeofU64
    IN first..(first + queryDataSize - 1)
ResetWordRange(entryCount, slotSz, startQuery, queryCount) ==
    LET count == Min(queryCount, entryCount - startQuery)
        first == WordIndex(slotSz * startQuery)
        queryDataSize == (slotSz * count) \div SizeofU64
    IN first..(first + queryDataSize - 1)

ResetWords(words, entryCount, slotSz, startQuery, queryCount) ==
    [i \in 1..Len(words) |->
        IF i \in ResetWordRange(entryCount, slotSz, startQuery, queryCount)
        THEN TimestampNotReady ELSE words[i]]

\* The loop of Reset over the replicas: a replica whose Map fails is skipped,
\* the others overwrite the words of the range through their mapping.
RECURSIVE ResetReplicas(_, _, _, _, _, _, _, _)
ResetReplicas(deviceIdx, N, mapOk, words, entryCount, slotSz, startQuery, queryCount) ==
    IF deviceIdx < N
    THEN ResetReplicas(deviceIdx + 1, N, mapOk,
                       IF mapOk[deviceIdx]
                       THEN ResetWords(words, entryCount, slotSz, startQuery, queryCount)
                       ELSE words,
                       entryCount, slotSz, startQuery, queryCount)
    ELSE words

\* The calls Reset makes per replica: Map, then Unmap when the Map succeeded
\* (a successful Map leaves pMappedAddr non-null); "skip" records that a
\* replica whose Map failed is neither written nor unmapped.
ResetLogNoUnmap(N, mapOk) ==
    [i \in 1..(2 * N) |->
        LET d == (i - 1) \div 2
        IN IF i % 2 = 1
           THEN Ev("Map", d, IF mapOk[d] THEN "ok" ELSE "fail")
           ELSE Ev("skip", d, "")]
ResetLog(N, mapOk) ==
    [i \in 1..(2 * N) |->
        LET d == (i - 1) \div 2
        IN IF i % 2 = 1
           THEN Ev("Map", d, IF mapOk[d] THEN "ok" ELSE "fail")
           ELSE Ev(IF mapOk[d] THEN "Unmap" ELSE "skip", d, "")]

\* TimestampQueryPool::Reset: [mem, log], the words of the pool's memory after
\* it and the calls it made.  With startQuery >= m_entryCount it does nothing.
TimestampQueryPoolResetStopAtFailure(N, mapOk, words, entryCount, slotSz, startQuery, queryCount) ==
    IF startQuery < entryCount /\ mapOk[DefaultDeviceIndex]
    THEN [mem |-> ResetReplicas(0, N, mapOk, words, entryCount, slotSz, startQuery, queryCount),
          log |-> ResetLog(N, mapOk)]
    ELSE [mem |-> words,
          log |-> IF startQuery < entryCount
                  THEN <<Ev("Map", DefaultDeviceIndex, "fail")>> ELSE <<>>]

TimestampQueryPoolResetNoGuard(N, mapOk, words, entryCount, slotSz, startQuery, queryCount) ==
    [mem |-> ResetReplicas(0, N, mapOk, words, entryCount, slotSz, startQuery,
                           IF startQuery < entryCount THEN queryCount ELSE 0),
     log |-> ResetLog(N, mapOk)]

TimestampQueryPoolReset(N, mapOk, words, entryCount, slotSz, startQuery, queryCount) ==
    IF startQuery < entryCount
    THEN [mem |-> ResetReplicas(0, N, mapOk, words, entryCount, slotSz, startQuery, queryCount),
          log |-> ResetLog(N, mapOk)]
    ELSE [mem |-> words, log |-> <<>>]

\* ------------------------------------------------------------------ PalQueryPool::GetResults
\* numXfbQueryDataElems
NumXfbQueryDataElems(flags) ==
    IF VK_QUERY_RESULT_WITH_AVAILABILITY_BIT \in flags THEN 3 ELSE 2

\* The stores of one iteration of the loop that copies the transform feedback
\* data of slot i from xfbQueryData (rec = <<pXfbQueryData[0], [1], [2]>>)
\* to pData, which has advanced by i * stride.
XfbSlotWritesUnswapped(i, stride, flags, result, rec) ==
    LET w == QueryValueSize(flags)
        off == i * stride
        conv(v) == IF w = SizeofU64 THEN v ELSE Trunc32(v)
    IN (IF result = VK_SUCCESS \/ VK_QUERY_RESULT_PARTIAL_BIT \in flags
        THEN <<Write(i, 0, off, w, conv(rec[1])), Write(i, 1, off + w, w, conv(rec[2]))>>
        ELSE <<>>)
       \o (IF VK_QUERY_RESULT_WITH_AVAILABILITY_BIT \in flags
           THEN <<Write(i, 2, off + 2 * w, w, conv(rec[3]))>> ELSE <<>>)

XfbSlotWrites(i, stride, flags, result, rec) ==
    LET w == QueryValueSize(flags)
        off == i * stride
        conv(v) == IF w = SizeofU64 THEN v ELSE Trunc32(v)
    IN (IF result = VK_SUCCESS \/ VK_QUERY_RESULT_PARTIAL_BIT \in flags
        THEN <<Write(i, 0, off, w, conv(rec[2])), Write(i, 1, off + w, w, conv(rec[1]))>>
        ELSE <<>>)
       \o (IF VK_QUERY_RESULT_WITH_AVAILABILITY_BIT \in flags
           THEN <<Write(i, 2, off + 2 * w, w, conv(rec[3]))>> ELSE <<>>)

\* stride = (stride == 0) ? queryDataStride : stride, where queryDataStride
\* is sizeof(uint64_t) * numXfbQueryDataElems
XfbStride(stride, flags) ==
    IF stride = 0 THEN SizeofU64 * NumXfbQueryDataElems(flags) ELSE stride

RECURSIVE XfbWritesFrom(_, _, _, _, _, _)
XfbWritesFrom(i, queryCount, stride, flags, result, xfbQueryData) ==
    IF i < queryCount
    THEN XfbSlotWrites(i, stride, flags, result, xfbQueryData[i + 1])
         \o XfbWritesFrom(i + 1, queryCount, stride, flags, result, xfbQueryData)
    ELSE <<>>

\* PalQueryPool::GetResults for queryCount > 0: [result, writes].  palResult
\* is the result of the backend's GetResults and xfbQueryData what it stored
\* in the scratch buffer (one <<needed, written, availability>> per slot).
\* For the other query types the backend stores into pData itself.
PalQueryPoolGetResultsAnyStatus(queryType, queryCount, stride, flags, palResult, xfbQueryData) ==
    LET result == PalToVkResult(palResult)
    IN [result |-> result,
        writes |-> IF queryType = VK_QUERY_TYPE_TRANSFORM_FEEDBACK_STREAM_EXT
                   THEN XfbWritesFrom(0, queryCount, XfbStride(stride, flags), flags,
                                      result, xfbQueryData)
                   ELSE <<>>]

PalQueryPoolGetResults(queryType, queryCount, stride, flags, palResult, xfbQueryData) ==
    LET result == PalToVkResult(palResult)
    IN [result |-> result,
        writes |-> IF /\ queryType = VK_QUERY_TYPE_TRANSFORM_FEEDBACK_STREAM_EXT
                      /\ (result = VK_SUCCESS \/ result = VK_NOT_READY)
                   THEN XfbWritesFrom(0, queryCount, XfbStride(stride, flags), flags,
                                      result, xfbQueryData)
                   ELSE <<>>]

\* ------------------------------------------------------------------ inputs of the model
\* timestampQueryPoolSlotSize of the device properties
SlotSizes == {8}
\* dataSize and stride of GetResults, in bytes
DataSizes == {4, 16, 32}
Strides   == {0, 4, 16}
\* what the backend stores per slot for a transform feedback query:
\* <<primitives needed, primitives written, availability>>
XfbRecords == {<<SmallValue, BigValue, Word64(1)>>, <<BigValue, SmallValue, Word64(0)>>}
\* results of the backend's GetResults
PalGetResultsResults == {"Success", "NotReady", "ErrorUnknown"}

\* ------------------------------------------------------------------ state
VARIABLES
    numDevices,   \* pDevice->NumPalDevices()
    slotSize,     \* pDevice->GetProperties().timestampQueryPoolSlotSize
    pool,         \* the pool object: its variant and members
    held,         \* the resources acquired and not yet released
    mem,          \* the 64-bit words of the timestamp memory (m_internalMem)
    call,         \* the GetResults call in progress or just returned
    writes,       \* the stores that call made into pData, in order
    log,          \* the collaborator calls of the last operation, in order
    result,       \* the status the last operation returned
    handle,       \* whether Create wrote *pQueryPool
    lastOp        \* the last operation and its range arguments

vars == <<numDevices, slotSize, pool, held, mem, call, writes, log, result, handle, lastOp>>

Devices == 0..(numDevices - 1)

NoPool == [kind |-> "none", queryType |-> "", entryCount |-> 0,
           palPools |-> <<>>, memAllocated |-> FALSE, fresh |-> FALSE]

IdleCall == [pc |-> "idle", startQuery |-> 0, reqCount |-> 0, queryCount |-> 0,
             dataSize |-> 0, stride |-> 0, flags |-> {}, dstSlot |-> 0,
             allReady |-> TRUE, reads |-> <<>>, afterReset |-> "no",
             xfbQueryData |-> <<>>]

\* queryType is the kind a Create was asked for, "" for the other operations
Op(name, startQuery, queryCount) ==
    [name |-> name, startQuery |-> startQuery, queryCount |-> queryCount, queryType |-> ""]
CreateOp(queryType, queryCount) ==
    [name |-> "Create", startQuery |-> 0, queryCount |-> queryCount, queryType |-> queryType]

Init ==
    /\ numDevices \in 1..MaxDevices
    /\ slotSize \in SlotSizes
    /\ pool = NoPool
    /\ held = {}
    /\ mem = <<>>
    /\ call = IdleCall
    /\ writes = <<>>
    /\ log = <<>>
    /\ result = ""
    /\ handle = FALSE
    /\ lastOp = Op("none", 0, 0)

\* ------------------------------------------------------------------ QueryPool::Create
\* The variant whose Create QueryPool::Create calls for a query kind
QueryPoolCreateVariantByCounter(queryType) ==
    IF queryType \in {VK_QUERY_TYPE_OCCLUSION, VK_QUERY_TYPE_PIPELINE_STATISTICS}
    THEN "pal" ELSE "ts"
QueryPoolCreateVariant(queryType) ==
    IF queryType # VK_QUERY_TYPE_TIMESTAMP THEN "pal" ELSE "ts"

\* queryType != VK_QUERY_TYPE_TIMESTAMP: PalQueryPool::Create
CreatePal ==
    /\ pool.kind = "none"
    /\ \E queryType \in {q \in QueryTypes : QueryPoolCreateVariant(q) = "pal"},
          queryCount \in 0..MaxEntries,
          sizeRes \in {PalSuccess, "ErrorUnknown"},
          hostOk \in BOOLEAN,
          failAt \in -1..(numDevices - 1),
          ctorErr \in PalErrors,
          gpuRes \in {VK_SUCCESS, VK_ERROR_OUT_OF_DEVICE_MEMORY} :
        LET r == PalQueryPoolCreate(numDevices, sizeRes, hostOk, failAt, ctorErr, gpuRes)
        IN /\ pool' = IF r.result = VK_SUCCESS
                      THEN [kind |-> "pal", queryType |-> queryType, entryCount |-> queryCount,
                            palPools |-> r.pools, memAllocated |-> r.memAllocated,
                            fresh |-> TRUE]
                      ELSE NoPool
           /\ held' = HeldAfter(held, r.log)
           /\ log' = r.log
           /\ result' = r.result
           /\ handle' = (r.result = VK_SUCCESS)
           /\ lastOp' = CreateOp(queryType, queryCount)
    /\ call' = IdleCall
    /\ writes' = <<>>
    /\ UNCHANGED <<numDevices, slotSize, mem>>

\* queryType == VK_QUERY_TYPE_TIMESTAMP: TimestampQueryPool::Create.  The
\* pool has one allocation of entryCount * slotSize bytes: on several devices
\* it is one shareable allocation (allocMask = 1 << DefaultMemoryInstanceIdx)
\* that every replica's view and mapping alias.  Create does not initialise
\* it: its words hold whatever the allocation held.
CreateTimestamp ==
    /\ pool.kind = "none"
    /\ \E queryType \in {q \in QueryTypes : QueryPoolCreateVariant(q) = "ts"},
          queryCount \in 0..MaxEntries,
          hostOk \in BOOLEAN,
          gpuRes \in {VK_SUCCESS, VK_ERROR_OUT_OF_DEVICE_MEMORY} :
        LET r == TimestampQueryPoolCreate(numDevices, queryCount, hostOk, gpuRes)
            nWords == IF r.memAllocated THEN (queryCount * slotSize) \div SizeofU64 ELSE 0
        IN /\ pool' = IF r.result = VK_SUCCESS
                      THEN [kind |-> "ts", queryType |-> queryType,
                            entryCount |-> queryCount, palPools |-> <<>>,
                            memAllocated |-> r.memAllocated, fresh |-> TRUE]
                      ELSE NoPool
           /\ mem' \in [1..nWords -> Values]
           /\ held' = HeldAfter(held, r.log)
           /\ log' = r.log
           /\ result' = r.result
           /\ handle' = (r.result = VK_SUCCESS)
           /\ lastOp' = CreateOp(queryType, queryCount)
    /\ call' = IdleCall
    /\ writes' = <<>>
    /\ UNCHANGED <<numDevices, slotSize>>

\* ------------------------------------------------------------------ Destroy
Destroy ==
    /\ pool.kind \in {"pal", "ts"}
    /\ call.pc = "idle"
    /\ LET l == IF pool.kind = "pal"
                THEN PalQueryPoolDestroy(numDevices, pool.palPools)
                ELSE TimestampQueryPoolDestroy(pool.memAllocated)
       IN /\ log' = l
          /\ held' = HeldAfter(held, l)
    /\ pool' = NoPool
    /\ mem' = <<>>
    /\ result' = VK_SUCCESS
    /\ lastOp' = Op("Destroy", 0, 0)
    /\ UNCHANGED <<numDevices, slotSize, call, writes, handle>>

\* ------------------------------------------------------------------ TimestampQueryPool::GetResults
\* if (queryCount > 0): the body of GetResults is entered
TsGetResultsEntersAlways(queryCount) == TRUE
TsGetResultsEnters(queryCount) == queryCount > 0

\* if ((flags & VK_QUERY_RESULT_WAIT_BIT) != 0) while (!ready): after a read
\* that found the slot not ready the slot is read again
KeepsPollingNever(flags, ready) == FALSE
KeepsPollingAlways(flags, ready) == ~ready
KeepsPolling(flags, ready) == VK_QUERY_RESULT_WAIT_BIT \in flags /\ ~ready

\* Whether the Reset just before this call covered it: "ok" when the last
\* operation was a Reset of the same range whose Map of the default replica
\* succeeded, "nomap" when that Map failed, "no" otherwise.
AfterReset(startQuery, queryCount) ==
    IF lastOp = Op("Reset", startQuery, queryCount)
    THEN (IF HasEv(log, "Map", DefaultDeviceIndex, "fail") THEN "nomap" ELSE "ok")
    ELSE "no"

\* Entry of GetResults up to the loop over the slots: the memory is mapped
\* through the default replica and queryCount clamped.  With queryCount == 0,
\* or clamped to 0, the call returns at once.  The code does not look at what
\* Map returns ("This map should never fail": the memory is persistently
\* mapped); the model takes this Map to succeed.
TsGetResultsBegin ==
    /\ pool.kind = "ts"
    /\ call.pc = "idle"
    /\ \E startQuery \in 0..MaxStart, queryCount \in 0..MaxQueryCount,
          dataSize \in DataSizes, stride \in Strides, flags \in ResultFlags :
        LET clamped == ClampQueryCount(queryCount, dataSize, stride, flags)
        IN /\ call' = [IdleCall EXCEPT
                         !.pc = IF clamped > 0 THEN "loop" ELSE "done",
                         !.startQuery = startQuery,
                         !.reqCount = queryCount,
                         !.queryCount = clamped,
                         !.dataSize = dataSize,
                         !.stride = stride,
                         !.flags = flags,
                         !.afterReset = AfterReset(startQuery, queryCount)]
           /\ log' = IF ~TsGetResultsEnters(queryCount) THEN <<>>
                     ELSE <<Ev("Map", DefaultDeviceIndex, "ok")>>
                          \o (IF clamped > 0 THEN <<>>
                              ELSE <<Ev("Unmap", DefaultDeviceIndex, "")>>)
           /\ lastOp' = Op("GetResults", startQuery, queryCount)
    /\ writes' = <<>>
    /\ result' = TimestampResult(TRUE)
    /\ UNCHANGED <<numDevices, slotSize, pool, held, mem, handle>>

\* One read of *pTimestamp for slot call.dstSlot.  A word outside the mapped
\* memory holds an arbitrary value.  With VK_QUERY_RESULT_WAIT_BIT a read
\* that finds the slot not ready is repeated; otherwise the iteration stores
\* the slot's results and moves to the next slot, and after the last slot the
\* call sets its status, unmaps and returns.
TsGetResultsSlot ==
    /\ pool.kind = "ts"
    /\ call.pc = "loop"
    /\ call.dstSlot < call.queryCount
    /\ LET off == SrcSlotOffset(call.dstSlot, call.startQuery, slotSize, call.stride)
           words == mem
           inside == WordIndex(off) <= Len(words)
           last == (call.dstSlot + 1 >= call.queryCount)
       IN \E value \in (IF inside THEN {words[WordIndex(off)]} ELSE Values) :
            LET ready == (value # TimestampNotReady)
                allReady == TrackAllReady(call.allReady, ready)
            IN IF KeepsPolling(call.flags, ready)
               THEN UNCHANGED <<call, writes, log, result>>
               ELSE /\ writes' = writes \o SlotWrites(call.dstSlot, call.stride, call.flags,
                                                     value, ready)
                    /\ call' = [call EXCEPT
                                  !.pc = IF last THEN "done" ELSE "loop",
                                  !.dstSlot = @ + 1,
                                  !.allReady = allReady,
                                  !.reads = Append(@, [off |-> off, val |-> value,
                                                       inside |-> inside])]
                    /\ result' = IF last THEN TimestampResult(allReady) ELSE result
                    /\ log' = IF last THEN Append(log, Ev("Unmap", DefaultDeviceIndex, ""))
                                      ELSE log
    /\ UNCHANGED <<numDevices, slotSize, pool, held, mem, handle, lastOp>>

\* The caller takes the status and the buffer of a returned GetResults
\* (vkGetQueryPoolResults returns), or a Reset of a PAL query pool has
\* returned.
Return ==
    /\ call.pc = "done"
    /\ call' = IdleCall
    /\ writes' = <<>>
    /\ log' = <<>>
    /\ lastOp' = Op("Return", 0, 0)
    /\ UNCHANGED <<numDevices, slotSize, pool, held, mem, result, handle>>

\* ------------------------------------------------------------------ TimestampQueryPool::Reset
\* mapOk[d]: whether m_internalMem.Map(d) succeeds.
TsReset ==
    /\ pool.kind = "ts"
    /\ call.pc = "idle"
    /\ \E startQuery \in 0..MaxStart, queryCount \in 0..MaxQueryCount,
          mapOk \in [Devices -> BOOLEAN] :
        /\ LET r == TimestampQueryPoolReset(numDevices, mapOk, mem, pool.entryCount,
                                            slotSize, startQuery, queryCount)
           IN /\ mem' = r.mem
              /\ log' = r.log
        /\ lastOp' = Op("Reset", startQuery, queryCount)
    /\ pool' = [pool EXCEPT !.fresh = FALSE]
    /\ result' = ""
    /\ UNCHANGED <<numDevices, slotSize, held, call, writes, handle>>

\* A Reset made by another thread while a GetResults is in its loop over the
\* slots: the pool has no lock, and the stores of Reset into the mapped
\* memory interleave with the reads of GetResults.  log keeps the calls of
\* the GetResults in progress.
TsResetDuring ==
    /\ pool.kind = "ts"
    /\ call.pc = "loop"
    /\ \E startQuery \in 0..MaxStart, queryCount \in 0..MaxQueryCount,
          mapOk \in [Devices -> BOOLEAN] :
        LET r == TimestampQueryPoolReset(numDevices, mapOk, mem, pool.entryCount,
                                         slotSize, startQuery, queryCount)
        IN /\ r.mem # mem
           /\ mem' = r.mem
    /\ pool' = [pool EXCEPT !.fresh = FALSE]
    /\ call' = [call EXCEPT !.afterReset = "no"]
    /\ UNCHANGED <<numDevices, slotSize, held, writes, log, result, handle, lastOp>>

\* ------------------------------------------------------------------ the GPU
\* The GPU of replica d completes the timestamp of a slot: it stores a value
\* other than TimestampNotReady into the slot's word, through its view of the
\* pool's allocation.
GpuWrite ==
    /\ pool.kind = "ts"
    /\ call.pc # "done"
    /\ \E d \in Devices, v \in Values \ {TimestampNotReady}, i \in 1..Len(mem) :
        /\ (i - 1) % (slotSize \div SizeofU64) = 0
        /\ mem[i] # v
        /\ mem' = [mem EXCEPT ![i] = v]
    /\ pool' = [pool EXCEPT !.fresh = FALSE]
    /\ call' = [call EXCEPT !.afterReset = "no"]
    /\ lastOp' = IF call.pc = "idle" THEN Op("GpuWrite", 0, 0) ELSE lastOp
    /\ log' = IF call.pc = "idle" THEN <<>> ELSE log
    /\ UNCHANGED <<numDevices, slotSize, held, writes, result, handle>>

\* ------------------------------------------------------------------ PalQueryPool::GetResults / Reset
\* PalQueryPool::Reset: the backend's Reset(startQuery, queryCount, nullptr)
\* of every non-null replica
RECURSIVE PalQueryPoolResetFrom(_, _, _, _, _)
PalQueryPoolResetFrom(N, pools, startQuery, queryCount, deviceIdx) ==
    IF deviceIdx < N
    THEN (IF pools[deviceIdx]
          THEN <<Ev("IQueryPool::Reset", deviceIdx, <<startQuery, queryCount>>)>>
          ELSE <<>>)
         \o PalQueryPoolResetFrom(N, pools, startQuery, queryCount, deviceIdx + 1)
    ELSE <<>>

PalQueryPoolResetDefaultOnly(N, pools, startQuery, queryCount) ==
    IF pools[DefaultDeviceIndex]
    THEN <<Ev("IQueryPool::Reset", DefaultDeviceIndex, <<startQuery, queryCount>>)>>
    ELSE <<>>
PalQueryPoolReset(N, pools, startQuery, queryCount) ==
    PalQueryPoolResetFrom(N, pools, startQuery, queryCount, 0)

PalGetResultsEnters(queryCount) == queryCount > 0

\* With queryCount > 0 the call goes through m_pPalQueryPool[DefaultDeviceIndex],
\* which the model takes to be non-null then.
PalGetResults ==
    /\ pool.kind = "pal"
    /\ call.pc = "idle"
    /\ \E startQuery \in 0..MaxStart, queryCount \in 0..MaxQueryCount,
          dataSize \in DataSizes, stride \in Strides, flags \in ResultFlags,
          palResult \in PalGetResultsResults :
        /\ PalGetResultsEnters(queryCount) => pool.palPools[DefaultDeviceIndex]
        /\ \E xfbQueryData \in
              (IF pool.queryType = VK_QUERY_TYPE_TRANSFORM_FEEDBACK_STREAM_EXT
               THEN [1..queryCount -> XfbRecords] ELSE {<<>>}) :
            LET r == PalQueryPoolGetResults(pool.queryType, queryCount, stride, flags,
                                            palResult, xfbQueryData)
            IN /\ call' = [IdleCall EXCEPT
                             !.pc = "done",
                             !.startQuery = startQuery,
                             !.reqCount = queryCount,
                             !.queryCount = queryCount,
                             !.dataSize = dataSize,
                             !.stride = stride,
                             !.flags = flags,
                             !.xfbQueryData = xfbQueryData]
               /\ writes' = IF PalGetResultsEnters(queryCount) THEN r.writes ELSE <<>>
               /\ result' = IF PalGetResultsEnters(queryCount) THEN r.result ELSE VK_SUCCESS
               /\ log' = IF PalGetResultsEnters(queryCount)
                         THEN <<Ev("IQueryPool::GetResults", DefaultDeviceIndex, palResult)>>
                         ELSE <<>>
               /\ lastOp' = Op("GetResults", startQuery, queryCount)
    /\ UNCHANGED <<numDevices, slotSize, pool, held, mem, handle>>

PalReset ==
    /\ pool.kind = "pal"
    /\ call.pc = "idle"
    /\ \E startQuery \in 0..MaxStart, queryCount \in 0..MaxQueryCount :
        /\ call' = [IdleCall EXCEPT
                      !.pc = "done",
                      !.startQuery = startQuery,
                      !.reqCount = queryCount,
                      !.queryCount = queryCount]
        /\ lastOp' = Op("Reset", startQuery, queryCount)
        /\ log' = PalQueryPoolReset(numDevices, pool.palPools, startQuery, queryCount)
    /\ writes' = <<>>
    /\ result' = ""
    /\ UNCHANGED <<numDevices, slotSize, pool, held, mem, handle>>

\* ------------------------------------------------------------------ specification
Next ==
    \/ CreatePal
    \/ CreateTimestamp
    \/ Destroy
    \/ TsGetResultsBegin
    \/ TsGetResultsSlot
    \/ TsReset
    \/ TsResetDuring
    \/ GpuWrite
    \/ PalGetResults
    \/ PalReset
    \/ Return

Spec == Init /\ [][Next]_vars

\* Create and Destroy alone
NextLife ==
    \/ CreatePal
    \/ CreateTimestamp
    \/ Destroy

SpecLife == Init /\ [][NextLife]_vars

\* the timestamp pool
NextTs ==
    \/ CreateTimestamp
    \/ Destroy
    \/ TsGetResultsBegin
    \/ TsGetResultsSlot
    \/ TsReset
    \/ GpuWrite
    \/ Return

SpecTs == Init /\ [][NextTs]_vars

\* the PAL query pool
NextPal ==
    \/ CreatePal
    \/ Destroy
    \/ PalGetResults
    \/ PalReset
    \/ Return

SpecPal == Init /\ [][NextPal]_vars

\* read-back of both variants: the pools, GetResults and the GPU
NextRead ==
    \/ CreatePal
    \/ CreateTimestamp
    \/ Destroy
    \/ TsGetResultsBegin
    \/ TsGetResultsSlot
    \/ GpuWrite
    \/ PalGetResults
    \/ Return

SpecRead == Init /\ [][NextRead]_vars

\* The timestamp pool of a device group of one device, with Resets concurrent
\* to GetResults and results without availability word and without partial
\* results; the thread that runs GetResults keeps running.
InitWait == Init /\ numDevices = 1

NextWait ==
    \/ CreateTimestamp
    \/ Destroy
    \/ (TsGetResultsBegin
          /\ call'.flags \subseteq {VK_QUERY_RESULT_WAIT_BIT, VK_QUERY_RESULT_64_BIT})
    \/ TsGetResultsSlot
    \/ TsReset
    \/ TsResetDuring
    \/ GpuWrite
    \/ Return

SpecWait == InitWait /\ [][NextWait]_vars /\ WF_vars(TsGetResultsSlot)

\* The timestamp pool of a device group of one device, with Resets and GPU
\* writes between the reads of a GetResults that stores its records at the
\* default stride.
NextRace ==
    \/ CreateTimestamp
    \/ Destroy
    \/ (TsGetResultsBegin /\ call'.stride = 0)
    \/ TsGetResultsSlot
    \/ TsReset
    \/ TsResetDuring
    \/ GpuWrite
    \/ Return

SpecRace == InitWait /\ [][NextRace]_vars

\* ================================================================== claims
ErrorStatuses == {VK_ERROR_OUT_OF_HOST_MEMORY, VK_ERROR_OUT_OF_DEVICE_MEMORY,
                  VK_ERROR_INITIALIZATION_FAILED}
OutOfMemoryStatuses == {VK_ERROR_OUT_OF_HOST_MEMORY, VK_ERROR_OUT_OF_DEVICE_MEMORY}

\* a failure point of Create was hit: the host allocation, the construction
\* of a backend object, or the GPU memory allocation / bind failed
HostAllocFailed == HasEv(log, "AllocApiObject", -1, "fail")
CtorFailedAt(k) ==
    \E i \in 1..Len(log) :
        log[i].op = "CreateQueryPool" /\ log[i].dev = k /\ log[i].res # PalSuccess
GpuAllocFailed ==
    \E i \in 1..Len(log) :
        log[i].op \in {"AllocAndBindGpuMem", "AllocGpuMem"} /\ log[i].res # VK_SUCCESS
CreateFailurePoint ==
    HostAllocFailed \/ GpuAllocFailed \/ (\E k \in Devices : CtorFailedAt(k))

\* C1: whenever Create (of either variant) hits a failure point, it returns
\* an error status, *pQueryPool is not written, no pool exists and none of the
\* resources acquired by the call is still held.
C1_CreateAllOrNothing ==
    (lastOp.name = "Create" /\ CreateFailurePoint) =>
        /\ result \in ErrorStatuses
        /\ ~handle
        /\ pool = NoPool
        /\ held = {}

\* C1 witness: on two devices both backend objects were constructed, the GPU
\* memory bind failed, and both objects were destroyed again.
C1_Witness ==
    /\ lastOp.name = "Create"
    /\ numDevices = 2
    /\ HasEv(log, "AllocAndBindGpuMem", -1, VK_ERROR_OUT_OF_DEVICE_MEMORY)
    /\ Releases(log, PalName(0)) = 1
    /\ Releases(log, PalName(1)) = 1
    /\ held = {}

\* What PalQueryPool::Create does when the construction on replica k fails:
\* replicas [0, k) are constructed and destroyed exactly once, replica k and
\* the later ones are never destroyed, the later ones never constructed, no
\* GPU memory is allocated, the host block is freed exactly once, and nothing
\* stays held.
C2_Rollback(k) ==
    /\ \A d \in Devices :
        /\ d < k => HasEv(log, "CreateQueryPool", d, PalSuccess)
                    /\ Releases(log, PalName(d)) = 1
        /\ d >= k => Releases(log, PalName(d)) = 0
        /\ d > k => ~(\E i \in 1..Len(log) : log[i].op = "CreateQueryPool" /\ log[i].dev = d)
    /\ ~HasOp(log, "AllocAndBindGpuMem")
    /\ Releases(log, "host") = 1
    /\ held = {}

\* the error CreateQueryPool reported on replica k
CtorError(k) ==
    log[CHOOSE i \in 1..Len(log) : log[i].op = "CreateQueryPool" /\ log[i].dev = k].res

\* C2 as claimed: a construction failure on replica k rolls back as above and
\* the operation returns out-of-memory.
C2_ReturnsOutOfMemory ==
    \A k \in Devices :
        (lastOp.name = "Create" /\ CtorFailedAt(k)) =>
            C2_Rollback(k) /\ result \in OutOfMemoryStatuses

\* C2 amended: a construction failure on replica k rolls back as above and
\* the operation returns the API status of the backend's error, which is an
\* out-of-memory status exactly when the backend reported out of memory.
C2_RollbackReturnsBackendError ==
    \A k \in Devices :
        (lastOp.name = "Create" /\ CtorFailedAt(k)) =>
            /\ C2_Rollback(k)
            /\ result = PalToVkResult(CtorError(k))
            /\ result \in ErrorStatuses
            /\ ~handle

\* C2 witness: on two devices the construction on replica 1 failed and
\* replica 0 was destroyed once.
C2_Witness ==
    /\ lastOp.name = "Create"
    /\ numDevices = 2
    /\ CtorFailedAt(1)
    /\ Releases(log, PalName(0)) = 1
    /\ Releases(log, "host") = 1

\* ------------------------------------------------------------------ GetResults: the stores
InBounds(w) == w.off >= 0 /\ w.off + w.width <= call.dataSize
WritesOf(slot) == SelectSeq(writes, LAMBDA w : w.slot = slot)
Overlaps(w, lo, hi) == w.off < hi /\ lo < w.off + w.width
Flag(f) == f \in call.flags
\* the word 0 or 1 in the width of the call's output values
OutBool(n) == IF Flag(VK_QUERY_RESULT_64_BIT) THEN <<0, 0, 0, n>> ELSE <<0, n>>
\* v modulo 2^32: its two low limbs
Mod32(v) == SubSeq(v, 3, 4)
OutValue(v) == IF Flag(VK_QUERY_RESULT_64_BIT) THEN v ELSE Mod32(v)
ValueWidth == IF Flag(VK_QUERY_RESULT_64_BIT) THEN 8 ELSE 4
RecordSize == ValueWidth * (IF Flag(VK_QUERY_RESULT_WITH_AVAILABILITY_BIT) THEN 2 ELSE 1)
\* the slots a timestamp GetResults has examined so far, as destination slots
Examined == 0..(Len(call.reads) - 1)
ReadOf(i) == call.reads[i + 1]
TsDone == pool.kind = "ts" /\ call.pc = "done"

\* C3: every store of a timestamp-pool GetResults lies in
\* [pData, pData + dataSize), for every queryCount, dataSize, stride and flags.
C3_TimestampWritesInBounds ==
    pool.kind = "ts" => \A i \in 1..Len(writes) : InBounds(writes[i])

\* C3 witness: a call with a stride smaller than the record was clamped and
\* its last store ends exactly at dataSize.
C3_Witness ==
    /\ TsDone
    /\ call.stride < RecordSize
    /\ call.queryCount < call.reqCount
    /\ \E i \in 1..Len(writes) : writes[i].off + writes[i].width = call.dataSize

\* the bytes of one transform feedback record in the caller's buffer
XfbRecordSize ==
    ValueWidth * (IF Flag(VK_QUERY_RESULT_WITH_AVAILABILITY_BIT) THEN 3 ELSE 2)

\* C4: every store of a hardware-delegating GetResults on a transform
\* feedback pool lies in [pData, pData + dataSize).  Taken for the calls
\* whose buffer holds queryCount records at the caller's stride, contiguous
\* records when the stride is 0.
C4_XfbWritesInBounds ==
    (/\ pool.kind = "pal"
     /\ pool.queryType = VK_QUERY_TYPE_TRANSFORM_FEEDBACK_STREAM_EXT
     /\ call.reqCount > 0
     /\ call.stride = 0 \/ call.stride >= XfbRecordSize
     /\ call.dataSize >=
            (call.reqCount - 1) * (IF call.stride = 0 THEN XfbRecordSize ELSE call.stride)
            + XfbRecordSize) =>
        \A i \in 1..Len(writes) : InBounds(writes[i])

\* a GetResults without WAIT on a just created pool (no Reset, no GPU write
\* yet) that examined at least one slot, all of them slots of the pool
FreshRead ==
    /\ TsDone
    /\ pool.fresh
    /\ ~Flag(VK_QUERY_RESULT_WAIT_BIT)
    /\ Len(call.reads) > 0
    /\ \A i \in Examined : ReadOf(i).inside

\* C5: GetResults without WAIT on slots of a just created timestamp pool
\* returns not-ready: every slot of the pool holds TimestampNotReady.
C5_FreshPoolNotReady ==
    FreshRead =>
        /\ result = VK_NOT_READY
        /\ \A i \in Examined : ReadOf(i).val = TimestampNotReady

\* what a GetResults that found every examined slot not ready has done: no
\* value stored, availability 0 stored per slot when requested, not-ready
\* returned when a slot was examined
AllReportedNotReady ==
    /\ \A i \in Examined : ReadOf(i).val = TimestampNotReady
    /\ \A i \in 1..Len(writes) : writes[i].elem = 1 /\ writes[i].val = OutBool(0)
    /\ Flag(VK_QUERY_RESULT_WITH_AVAILABILITY_BIT) =>
          \A i \in Examined : Len(WritesOf(i)) = 1
    /\ Len(call.reads) > 0 => result = VK_NOT_READY

\* C6 as claimed: a GetResults without WAIT over the range of the Reset just
\* before it (no GPU write in between; the range not empty and inside the
\* pool) returns not-ready and reports every slot of the range not ready.
C6_ResetRangeNotReady ==
    (/\ TsDone
     /\ call.afterReset # "no"
     /\ ~Flag(VK_QUERY_RESULT_WAIT_BIT)
     /\ call.reqCount > 0
     /\ call.startQuery + call.reqCount <= pool.entryCount) =>
        /\ result = VK_NOT_READY
        /\ Len(call.reads) = call.reqCount
        /\ AllReportedNotReady

\* C6 amended: when the Reset mapped the default replica and its range lies
\* inside the pool, the GetResults reports every slot it examines not ready
\* and returns not-ready whenever it examines at least one slot; it examines
\* the slots left by the dataSize / stride clamp.
C6_ResetThenExaminedNotReady ==
    (/\ TsDone
     /\ call.afterReset = "ok"
     /\ ~Flag(VK_QUERY_RESULT_WAIT_BIT)
     /\ call.startQuery + call.reqCount <= pool.entryCount) =>
        /\ AllReportedNotReady
        /\ Len(call.reads) = Min(call.reqCount,
                                 call.dataSize \div Max(RecordSize, call.stride))
        /\ Len(call.reads) = 0 => result = VK_SUCCESS

\* C6 witness: both slots of a Reset range were read back not ready, with
\* availability.
C6_Witness ==
    /\ TsDone
    /\ call.afterReset = "ok"
    /\ ~Flag(VK_QUERY_RESULT_WAIT_BIT)
    /\ Flag(VK_QUERY_RESULT_WITH_AVAILABILITY_BIT)
    /\ call.startQuery + call.reqCount <= pool.entryCount
    /\ Len(call.reads) = 2
    /\ result = VK_NOT_READY

\* C7 as claimed: GetResults without WAIT stores no byte into the
\* destination record of a slot of the pool it found not ready (taken for
\* the calls whose records do not overlap: stride >= record size).
C7_NotReadyRecordUntouched ==
    (TsDone /\ ~Flag(VK_QUERY_RESULT_WAIT_BIT) /\ call.stride >= RecordSize) =>
        \A i \in Examined :
            (ReadOf(i).inside /\ ReadOf(i).val = TimestampNotReady) =>
                \A j \in 1..Len(writes) :
                    ~Overlaps(writes[j], i * call.stride, i * call.stride + RecordSize)

\* C7 amended: for a slot found not ready GetResults stores no value (it
\* never zero-fills it); the only store it makes for the slot is the
\* availability word 0 right after the value field when WITH-AVAILABILITY is
\* set; and when the records do not overlap (stride >= record size) no byte
\* of the slot's value field is written at all.
C7_NotReadyValueUntouched ==
    pool.kind = "ts" =>
        \A i \in Examined :
            ReadOf(i).val = TimestampNotReady =>
                /\ WritesOf(i) =
                      (IF Flag(VK_QUERY_RESULT_WITH_AVAILABILITY_BIT)
                       THEN <<Write(i, 1, i * call.stride + ValueWidth, ValueWidth, OutBool(0))>>
                       ELSE <<>>)
                /\ call.stride >= RecordSize =>
                      \A j \in 1..Len(writes) :
                          ~Overlaps(writes[j], i * call.stride, i * call.stride + ValueWidth)

\* C7 witness: of two slots with separate records the first was not ready
\* and the second ready, with availability requested.
C7_Witness ==
    /\ TsDone
    /\ ~Flag(VK_QUERY_RESULT_WAIT_BIT)
    /\ Flag(VK_QUERY_RESULT_WITH_AVAILABILITY_BIT)
    /\ call.stride >= RecordSize
    /\ Len(call.reads) = 2
    /\ ReadOf(0).val = TimestampNotReady
    /\ ReadOf(1).val # TimestampNotReady

\* C8: when GetResults passes slot i of its range and the slot's word, at
\* byte offset (i + startQuery) * slotSize of the pool's memory,
\* holds a value v other than TimestampNotReady, the step stores v (its low
\* 32 bits without 64-BIT-WIDTH) at pData + i * stride, then with
\* WITH-AVAILABILITY the word 1 right after it, and keeps the slot ready.
C8_ReadyValueCopied ==
    [][(/\ pool.kind = "ts"
        /\ call.pc = "loop"
        /\ call'.dstSlot = call.dstSlot + 1
        /\ call.dstSlot + call.startQuery < pool.entryCount
        /\ pool.memAllocated) =>
            LET i == call.dstSlot
                v == mem[((i + call.startQuery) * slotSize) \div 8 + 1]
            IN v # TimestampNotReady =>
                /\ writes' = writes
                      \o <<Write(i, 0, i * call.stride, ValueWidth, OutValue(v))>>
                      \o (IF Flag(VK_QUERY_RESULT_WITH_AVAILABILITY_BIT)
                          THEN <<Write(i, 1, i * call.stride + ValueWidth, ValueWidth,
                                       OutBool(1))>>
                          ELSE <<>>)
                /\ call'.allReady = call.allReady
                /\ call'.reads[i + 1].val = v
                /\ call'.pc = "done" =>
                      result' = (IF call.allReady THEN VK_SUCCESS ELSE VK_NOT_READY)]_vars

\* C8 witness: with startQuery 1 and a stride of 16 bytes the second slot of
\* the pool was read ready and stored truncated, followed by availability 1.
C8_Witness ==
    /\ TsDone
    /\ call.startQuery = 1
    /\ call.stride = 16
    /\ ~Flag(VK_QUERY_RESULT_64_BIT)
    /\ Flag(VK_QUERY_RESULT_WITH_AVAILABILITY_BIT)
    /\ Len(call.reads) = 1
    /\ ReadOf(0).inside
    /\ ReadOf(0).val = BigValue
    /\ writes = <<Write(0, 0, 0, 4, <<0, 7>>), Write(0, 1, 4, 4, <<0, 1>>)>>
    /\ result = VK_SUCCESS

\* the transform feedback GetResults that copied from the scratch buffer
XfbDone ==
    /\ pool.kind = "pal"
    /\ pool.queryType = VK_QUERY_TYPE_TRANSFORM_FEEDBACK_STREAM_EXT
    /\ call.pc = "done"
    /\ lastOp.name = "GetResults"
    /\ call.reqCount > 0

\* C9: without 64-BIT-WIDTH every counter value GetResults stores is the
\* 64-bit source value modulo 2^32 (timestamp value; written and needed
\* counts), and a source value of 2^32 or more changes nothing in the status:
\* the timestamp call returns success or not-ready by readiness alone, the
\* transform feedback call the status of the backend.
C9_Wraps32 ==
    /\ (pool.kind = "ts" /\ ~Flag(VK_QUERY_RESULT_64_BIT)) =>
          /\ \A j \in 1..Len(writes) :
                writes[j].elem = 0 =>
                    /\ writes[j].width = 4
                    /\ writes[j].val = Mod32(ReadOf(writes[j].slot).val)
          /\ call.pc = "done" =>
                result = (IF \E i \in Examined : ReadOf(i).val = TimestampNotReady
                          THEN VK_NOT_READY ELSE VK_SUCCESS)
    /\ (XfbDone /\ ~Flag(VK_QUERY_RESULT_64_BIT)) =>
          /\ \A j \in 1..Len(writes) :
                LET rec == call.xfbQueryData[writes[j].slot + 1]
                IN /\ writes[j].width = 4
                   /\ writes[j].elem = 0 => writes[j].val = Mod32(rec[2])
                   /\ writes[j].elem = 1 => writes[j].val = Mod32(rec[1])
          /\ \E r \in PalGetResultsResults :
                log = <<Ev("IQueryPool::GetResults", DefaultDeviceIndex, r)>>
                /\ result = PalToVkResult(r)

\* C9 witness: a timestamp of 2^32 + 7 was stored as 7 in a call that
\* returned success.
C9_Witness ==
    /\ TsDone
    /\ ~Flag(VK_QUERY_RESULT_64_BIT)
    /\ result = VK_SUCCESS
    /\ \E j \in 1..Len(writes) :
          /\ writes[j].elem = 0
          /\ ReadOf(writes[j].slot).val = BigValue
          /\ writes[j].val = <<0, 7>>

\* C10: a successful transform feedback GetResults stores, for every slot and
\* its scratch record <<needed N, written W, availability A>>, W as the first
\* element of the slot's record, N as the second and, with WITH-AVAILABILITY,
\* A as the third and last, each in the requested width, and nothing else.
C10_XfbReordered ==
    (XfbDone /\ result = VK_SUCCESS) =>
        \A i \in 0..(call.reqCount - 1) :
            LET rec == call.xfbQueryData[i + 1]
                ws == WritesOf(i)
                base == ws[1].off
            IN /\ Len(ws) = (IF Flag(VK_QUERY_RESULT_WITH_AVAILABILITY_BIT) THEN 3 ELSE 2)
               /\ ws[1] = Write(i, 0, base, ValueWidth, OutValue(rec[2]))
               /\ ws[2] = Write(i, 1, base + ValueWidth, ValueWidth, OutValue(rec[1]))
               /\ Flag(VK_QUERY_RESULT_WITH_AVAILABILITY_BIT) =>
                     ws[3] = Write(i, 2, base + 2 * ValueWidth, ValueWidth, OutValue(rec[3]))

\* C10 witness: two slots with different counts were copied with
\* availability.
C10_Witness ==
    /\ XfbDone
    /\ result = VK_SUCCESS
    /\ Flag(VK_QUERY_RESULT_WITH_AVAILABILITY_BIT)
    /\ call.reqCount = 2
    /\ call.xfbQueryData[1] = <<SmallValue, BigValue, Word64(1)>>
    /\ call.xfbQueryData[2] = <<BigValue, SmallValue, Word64(0)>>
    /\ Len(writes) = 6

\* ------------------------------------------------------------------ Reset out of range
\* C11: a Reset of a timestamp pool with startQuery >= m_entryCount, for every
\* queryCount, maps and unmaps no replica (it makes no call at all) and
\* changes no word of the pool's memory.
C11_ResetOutOfRangeNoOp ==
    [][(/\ pool.kind = "ts"
        /\ lastOp'.name = "Reset"
        /\ lastOp'.startQuery >= pool.entryCount) =>
            (mem' = mem /\ log' = <<>>)]_vars

\* C11 witness: a Reset of two slots from startQuery 1 on a pool of one slot
\* that holds a value; nothing was mapped and the slot still holds it.
C11_Witness ==
    /\ pool.kind = "ts"
    /\ pool.entryCount = 1
    /\ lastOp = Op("Reset", 1, 2)
    /\ log = <<>>
    /\ mem = <<BigValue>>

\* ------------------------------------------------------------------ Destroy
\* every resource a pool can own
Resources == {"host", "gpu"} \cup {PalName(d) : d \in 0..(MaxDevices - 1)}

\* C12: Destroy of a created pool of either variant returns VK_SUCCESS and
\* releases every resource the pool held exactly once (each non-null backend
\* object, the GPU memory when one was allocated, the host block); it
\* releases nothing the pool did not hold, and nothing remains held.
C12_DestroyReleasesOnce ==
    [][lastOp'.name = "Destroy" =>
          /\ result' = VK_SUCCESS
          /\ held' = {}
          /\ "host" \in held
          /\ \A r \in Resources :
                Releases(log', r) = (IF r \in held THEN 1 ELSE 0)]_vars

\* C12 witness: a pool on two devices was destroyed: both backend objects,
\* the GPU memory and the host block were released, in four calls.
C12_Witness ==
    /\ lastOp.name = "Destroy"
    /\ numDevices = 2
    /\ Len(log) = 4
    /\ \A r \in {"host", "gpu", PalName(0), PalName(1)} : Releases(log, r) = 1
    /\ held = {}

\* a timestamp pool without slots was destroyed: no GPU memory was freed
C12_WitnessZeroSlots ==
    /\ lastOp.name = "Destroy"
    /\ log = <<FreeGpuMemEv(FALSE), FreeApiObjectEv(TRUE)>>
    /\ held = {}

\* ------------------------------------------------------------------ QueryPool::Create: the dispatch
\* the variant whose Create made the calls of log: only PalQueryPool::Create
\* asks the backend for the size of its object
VariantOf(l) == IF HasOp(l, "GetQueryPoolSize") THEN "pal" ELSE "ts"

\* the status of the variant's Create, as the outcomes of its calls give it:
\* that of the first acquisition that failed, success when none did
VariantStatus(l) ==
    IF HasEv(l, "AllocApiObject", -1, "fail") THEN VK_ERROR_OUT_OF_HOST_MEMORY
    ELSE IF \E i \in 1..Len(l) : l[i].op = "CreateQueryPool" /\ l[i].res # PalSuccess
    THEN PalToVkResult(l[CHOOSE i \in 1..Len(l) :
                             l[i].op = "CreateQueryPool" /\ l[i].res # PalSuccess].res)
    ELSE IF \E i \in 1..Len(l) : l[i].op \in {"AllocAndBindGpuMem", "AllocGpuMem"}
    THEN l[CHOOSE i \in 1..Len(l) : l[i].op \in {"AllocAndBindGpuMem", "AllocGpuMem"}].res
    ELSE VK_SUCCESS

\* C13: Create calls TimestampQueryPool::Create for the kind timestamp and
\* PalQueryPool::Create for every other kind, whatever the other inputs are;
\* it returns the variant's status, and writes the caller's handle, to a pool
\* of that variant and kind, exactly when that status is VK_SUCCESS.
C13_CreateDispatch ==
    lastOp.name = "Create" =>
        /\ VariantOf(log) =
              (IF lastOp.queryType = VK_QUERY_TYPE_TIMESTAMP THEN "ts" ELSE "pal")
        /\ result = VariantStatus(log)
        /\ handle = (result = VK_SUCCESS)
        /\ pool.kind = (IF result = VK_SUCCESS THEN VariantOf(log) ELSE "none")
        /\ result = VK_SUCCESS => pool.queryType = lastOp.queryType

\* C13 witness: a request for transform feedback queries made a PAL query
\* pool and wrote the handle.
C13_Witness ==
    /\ lastOp.name = "Create"
    /\ lastOp.queryType = VK_QUERY_TYPE_TRANSFORM_FEEDBACK_STREAM_EXT
    /\ pool.kind = "pal"
    /\ handle
    /\ result = VK_SUCCESS

\* ------------------------------------------------------------------ GetResults of no query
\* C14: a GetResults with queryCount = 0, of either variant and whatever
\* startQuery, dataSize, stride and flags are, returns VK_SUCCESS, stores
\* nothing into pData and makes no call: no Map, no Unmap, no backend call.
C14_ZeroCountNoOp ==
    (call.pc = "done" /\ lastOp.name = "GetResults" /\ call.reqCount = 0) =>
        /\ result = VK_SUCCESS
        /\ writes = <<>>
        /\ log = <<>>
        /\ call.reads = <<>>

\* C14 witness: a timestamp pool whose slot is not ready was asked for no
\* query from startQuery 1 with WAIT and returned.
C14_Witness ==
    /\ TsDone
    /\ lastOp = Op("GetResults", 1, 0)
    /\ Flag(VK_QUERY_RESULT_WAIT_BIT)
    /\ pool.entryCount = 1
    /\ mem = <<TimestampNotReady>>
    /\ result = VK_SUCCESS

\* the same for a transform feedback pool
C14_WitnessPal ==
    /\ pool.kind = "pal"
    /\ pool.queryType = VK_QUERY_TYPE_TRANSFORM_FEEDBACK_STREAM_EXT
    /\ call.pc = "done"
    /\ lastOp = Op("GetResults", 1, 0)
    /\ result = VK_SUCCESS

\* ------------------------------------------------------------------ the status of GetResults
\* C15: a timestamp-pool GetResults that has returned examined the slots left
\* by the dataSize / stride clamp; it returns VK_SUCCESS when every examined
\* slot was ready and VK_NOT_READY when at least one was not, and nothing
\* else; the value of every examined slot that was ready has been stored at
\* pData + i * stride, also when the call returns VK_NOT_READY and whether or
\* not PARTIAL is set.
C15_StatusByReadiness ==
    TsDone =>
        /\ Len(call.reads) = Min(call.reqCount,
                                 call.dataSize \div Max(RecordSize, call.stride))
        /\ result = (IF \A i \in Examined : ReadOf(i).val # TimestampNotReady
                     THEN VK_SUCCESS ELSE VK_NOT_READY)
        /\ \A i \in Examined :
              ReadOf(i).val # TimestampNotReady =>
                  \E j \in 1..Len(writes) :
                      writes[j] = Write(i, 0, i * call.stride, ValueWidth,
                                        OutValue(ReadOf(i).val))

\* C15 witness: without PARTIAL, the first of two slots was ready and the
\* second was not: its value was stored and the call returned VK_NOT_READY.
C15_Witness ==
    /\ TsDone
    /\ ~Flag(VK_QUERY_RESULT_PARTIAL_BIT)
    /\ Len(call.reads) = 2
    /\ ReadOf(0).val = BigValue
    /\ ReadOf(1).val = TimestampNotReady
    /\ result = VK_NOT_READY
    /\ Len(writes) = 1

\* ------------------------------------------------------------------ the order of Destroy
\* the positions in l of the calls of an operation
CallsOf(l, op) == {i \in 1..Len(l) : l[i].op = op}

\* C16 as claimed: Destroy releases in the reverse of the order of Create:
\* the GPU memory before every backend object, and the host block last.
C16_DestroyReverseOfCreate ==
    lastOp.name = "Destroy" =>
        /\ \A g \in CallsOf(log, "FreeGpuMem"), p \in CallsOf(log, "IQueryPool::Destroy") :
              g < p
        /\ CallsOf(log, "FreeApiObject") = {Len(log)}

\* C16 amended: Destroy first destroys the backend objects of the non-null
\* replicas, replica 0 first, then frees the GPU memory, and frees the host
\* block last; the timestamp pool has no backend objects and frees the GPU
\* memory, then the host block.
C16_DestroyObjectsMemoryHost ==
    lastOp.name = "Destroy" =>
        /\ Len(log) >= 2
        /\ CallsOf(log, "FreeApiObject") = {Len(log)}
        /\ CallsOf(log, "FreeGpuMem") = {Len(log) - 1}
        /\ CallsOf(log, "IQueryPool::Destroy") = 1..(Len(log) - 2)
        /\ \A i, j \in 1..(Len(log) - 2) : i < j => log[i].dev < log[j].dev

\* C16 witness: Destroy of a pool on two devices destroyed the object of
\* replica 0, that of replica 1, freed the GPU memory and then the host block.
C16_Witness ==
    /\ lastOp.name = "Destroy"
    /\ log = <<Ev("IQueryPool::Destroy", 0, ""), Ev("IQueryPool::Destroy", 1, ""),
               Ev("FreeGpuMem", -1, "allocated"), Ev("FreeApiObject", -1, "block")>>

\* ------------------------------------------------------------------ GetResults with WAIT
\* C17: a timestamp-pool GetResults with WAIT that examined at least one
\* slot and has returned found every examined slot with a value other than
\* TimestampNotReady, stored that value at pData + i * stride, and returned
\* VK_SUCCESS, never VK_NOT_READY.
C17_WaitReturnsSuccess ==
    (TsDone /\ Flag(VK_QUERY_RESULT_WAIT_BIT) /\ Len(call.reads) > 0) =>
        /\ result = VK_SUCCESS
        /\ call.allReady
        /\ \A i \in Examined :
              /\ ReadOf(i).val # TimestampNotReady
              /\ Len(WritesOf(i)) >= 1
              /\ WritesOf(i)[1] = Write(i, 0, i * call.stride, ValueWidth,
                                        OutValue(ReadOf(i).val))

\* C17 witness: a call with WAIT and availability returned after two slots.
C17_Witness ==
    /\ TsDone
    /\ Flag(VK_QUERY_RESULT_WAIT_BIT)
    /\ Flag(VK_QUERY_RESULT_WITH_AVAILABILITY_BIT)
    /\ Len(call.reads) = 2
    /\ ReadOf(0).inside /\ ReadOf(1).inside
    /\ Len(writes) = 4
    /\ result = VK_SUCCESS

\* ------------------------------------------------------------------ termination of GetResults
\* the loop of a timestamp-pool GetResults is at a slot
InLoop == pool.kind = "ts" /\ call.pc = "loop"
\* the word of destination slot i of the call in progress, when it lies in
\* the pool's memory
SlotWord(i) == WordIndex(SrcSlotOffset(i, call.startQuery, slotSize, call.stride))
SlotInside(i) == SlotWord(i) <= Len(mem)
SlotNotReady(i) == SlotInside(i) /\ mem[SlotWord(i)] = TimestampNotReady
\* every slot of the pool the call has still to examine holds a value
PendingReady == InLoop => \A i \in call.dstSlot..(call.queryCount - 1) : ~SlotNotReady(i)

\* C18: (1) without WAIT a GetResults in its loop returns, having examined
\* each slot left by the clamp once, whatever the GPU does; (2) with WAIT it
\* returns provided that from some moment on every slot it has still to
\* examine holds a value (the GPU has written them and no Reset re-arms
\* them), and what it returns is VK_SUCCESS; (3) with WAIT it does not move past a slot, and so does not return,
\* in a step that finds the slot at TimestampNotReady.
C18_Termination ==
    /\ (InLoop /\ ~Flag(VK_QUERY_RESULT_WAIT_BIT))
          ~> (call.pc = "done" /\ Len(call.reads) = call.queryCount)
    /\ <>[]PendingReady => []<>(~InLoop)
    /\ []((TsDone /\ Flag(VK_QUERY_RESULT_WAIT_BIT)) => result = VK_SUCCESS)
    /\ [][(InLoop /\ Flag(VK_QUERY_RESULT_WAIT_BIT) /\ SlotNotReady(call.dstSlot)) =>
              (call'.pc = "loop" /\ call'.dstSlot = call.dstSlot
               /\ writes' = writes /\ result' = result)]_vars

\* C18 witness: a call with WAIT has passed its first slot and polls the
\* second, which holds TimestampNotReady.
C18_Witness ==
    /\ InLoop
    /\ Flag(VK_QUERY_RESULT_WAIT_BIT)
    /\ call.dstSlot = 1
    /\ SlotNotReady(1)

\* ------------------------------------------------------------------ map / unmap
\* the calls of the operation in progress or last completed, per replica
MapCalls(d) == {i \in CallsOf(log, "Map") : log[i].dev = d}
MapsTaken(d) == {i \in MapCalls(d) : log[i].res = "ok"}
UnmapCalls(d) == {i \in CallsOf(log, "Unmap") : log[i].dev = d}
\* every mapping taken is followed by its own Unmap, and there is no other Unmap
Balanced(d) ==
    /\ Cardinality(UnmapCalls(d)) = Cardinality(MapsTaken(d))
    /\ \A i \in MapsTaken(d) : i + 1 \in UnmapCalls(d)

\* C19: a timestamp-pool GetResults that has returned mapped the default
\* replica once and unmapped it once if queryCount > 0, and mapped nothing
\* otherwise; a Reset has unmapped exactly the replicas whose Map succeeded;
\* and whenever no GetResults is in its loop no replica has a mapping
\* outstanding.
C19_MapUnmapBalanced ==
    pool.kind = "ts" =>
        /\ (TsDone /\ lastOp.name = "GetResults") =>
              /\ Cardinality(MapCalls(DefaultDeviceIndex)) = (IF call.reqCount > 0 THEN 1 ELSE 0)
              /\ Cardinality(UnmapCalls(DefaultDeviceIndex))
                    = Cardinality(MapCalls(DefaultDeviceIndex))
              /\ \A d \in Devices \ {DefaultDeviceIndex} : MapCalls(d) = {} /\ UnmapCalls(d) = {}
        /\ (lastOp.name = "Reset" /\ lastOp.startQuery < pool.entryCount) =>
              \A d \in Devices :
                  /\ Cardinality(MapCalls(d)) = 1
                  /\ Balanced(d)
        /\ call.pc # "loop" => \A d \in Devices : Balanced(d)
        /\ call.pc = "loop" =>
              /\ Cardinality(MapsTaken(DefaultDeviceIndex)) = 1
              /\ UnmapCalls(DefaultDeviceIndex) = {}

\* C19 witness: a Reset on two replicas whose Map succeeded on one and failed
\* on the other.
C19_Witness ==
    /\ pool.kind = "ts"
    /\ lastOp.name = "Reset"
    /\ numDevices = 2
    /\ MapsTaken(0) = {} /\ MapCalls(0) # {}
    /\ MapsTaken(1) # {} /\ UnmapCalls(1) # {}

\* C19 witness: a GetResults returned VK_NOT_READY after two slots, with one
\* Map and one Unmap.
C19_WitnessGetResults ==
    /\ TsDone
    /\ lastOp.name = "GetResults"
    /\ result = VK_NOT_READY
    /\ Len(call.reads) = 2
    /\ Cardinality(MapCalls(DefaultDeviceIndex)) = 1
    /\ Cardinality(UnmapCalls(DefaultDeviceIndex)) = 1

\* ------------------------------------------------------------------ counters and availability of stream output
\* the stores of slot i of the returned call into element e of its record
ElemWrites(i, e) == SelectSeq(WritesOf(i), LAMBDA w : w.elem = e)
CountersWritten(i) == Len(ElemWrites(i, 0)) = 1 /\ Len(ElemWrites(i, 1)) = 1
NoCounterWritten(i) == Len(ElemWrites(i, 0)) = 0 /\ Len(ElemWrites(i, 1)) = 0
\* the availability is the last store of the slot and lies behind the two
\* places of the counters
AvailabilityWrittenLast(i) ==
    LET ws == WritesOf(i)
    IN /\ Len(ElemWrites(i, 2)) = 1
       /\ ws[Len(ws)].elem = 2
       /\ ws[Len(ws)].off = i * XfbStride(call.stride, call.flags) + 2 * ValueWidth
       /\ ws[Len(ws)].val = OutValue(call.xfbQueryData[i + 1][3])

\* C20 as claimed: the counters of a slot are written only if the status is
\* VK_SUCCESS or PARTIAL is set, and with WITH_AVAILABILITY the availability
\* of every slot is written whatever the status.
C20_AvailabilityWhateverStatus ==
    XfbDone =>
        \A i \in 0..(call.reqCount - 1) :
            /\ ~NoCounterWritten(i) =>
                  (result = VK_SUCCESS \/ Flag(VK_QUERY_RESULT_PARTIAL_BIT))
            /\ Flag(VK_QUERY_RESULT_WITH_AVAILABILITY_BIT) => AvailabilityWrittenLast(i)

\* C20 amended: when the status is VK_SUCCESS or VK_NOT_READY the two
\* counters of every slot are written exactly if the status is VK_SUCCESS or
\* PARTIAL is set, and the availability is written, last, exactly if
\* WITH_AVAILABILITY is set; with any other status nothing is written.
C20_CountersAndAvailability ==
    XfbDone =>
        IF result \in {VK_SUCCESS, VK_NOT_READY}
        THEN \A i \in 0..(call.reqCount - 1) :
                /\ IF result = VK_SUCCESS \/ Flag(VK_QUERY_RESULT_PARTIAL_BIT)
                   THEN CountersWritten(i) ELSE NoCounterWritten(i)
                /\ IF Flag(VK_QUERY_RESULT_WITH_AVAILABILITY_BIT)
                   THEN AvailabilityWrittenLast(i) ELSE Len(ElemWrites(i, 2)) = 0
        ELSE writes = <<>>

\* C20 witness: a call without PARTIAL and with WITH_AVAILABILITY returned
\* VK_NOT_READY for two slots and wrote the two availabilities only.
C20_Witness ==
    /\ XfbDone
    /\ result = VK_NOT_READY
    /\ call.reqCount = 2
    /\ call.flags = {VK_QUERY_RESULT_WITH_AVAILABILITY_BIT}
    /\ Len(writes) = 2
    /\ writes[1].elem = 2 /\ writes[2].elem = 2

\* C20 witness: the backend returned an error to a call with
\* WITH_AVAILABILITY and PARTIAL, and nothing was written.
C20_WitnessError ==
    /\ XfbDone
    /\ result \notin {VK_SUCCESS, VK_NOT_READY}
    /\ Flag(VK_QUERY_RESULT_WITH_AVAILABILITY_BIT)
    /\ Flag(VK_QUERY_RESULT_PARTIAL_BIT)
    /\ writes = <<>>

\* ------------------------------------------------------------------ destination stride of stream output
\* C21: a transform feedback GetResults stores element e of slot i at
\* i * stride + e * (width of a value), and with stride 0 at
\* i * (size of a record) + e * (width of a value): records are contiguous.
C21_XfbStrideAdvance ==
    XfbDone =>
        \A k \in 1..Len(writes) :
            writes[k].off =
                writes[k].slot * (IF call.stride = 0 THEN XfbRecordSize ELSE call.stride)
                + writes[k].elem * ValueWidth

\* ------------------------------------------------------------------ what Create lets out
\* C22: every hardware-delegating pool that Create returned has a backend
\* object for every replica and bound GPU memory, whatever GetQueryPoolSize
\* reported.
C22_NoPartialPoolEscapes ==
    pool.kind = "pal" =>
        /\ \A d \in Devices : pool.palPools[d]
        /\ pool.memAllocated
        /\ \A d \in Devices : PalName(d) \in held

\* ------------------------------------------------------------------ replicas of the hardware-delegating pool
PalDone == pool.kind = "pal" /\ call.pc = "done"
ReplicasPresent == {d \in Devices : pool.palPools[d]}

\* C23: a Reset of a hardware-delegating pool calls the backend's Reset of
\* every non-null replica once, with the caller's startQuery and queryCount,
\* calls nothing else and returns nothing; a GetResults calls the backend of
\* the default replica only, once if queryCount > 0 and not at all otherwise.
C23_ResetAllReadDefault ==
    /\ (PalDone /\ lastOp.name = "Reset") =>
          /\ Len(log) = Cardinality(ReplicasPresent)
          /\ \A d \in ReplicasPresent :
                Cardinality({i \in 1..Len(log) :
                    log[i] = Ev("IQueryPool::Reset", d,
                                <<lastOp.startQuery, lastOp.queryCount>>)}) = 1
          /\ result = ""
          /\ writes = <<>>
    /\ (PalDone /\ lastOp.name = "GetResults") =>
          /\ \A i \in 1..Len(log) :
                log[i].op = "IQueryPool::GetResults" /\ log[i].dev = DefaultDeviceIndex
          /\ Len(log) = (IF call.reqCount > 0 THEN 1 ELSE 0)

\* C23 witness: a Reset of a pool of two replicas has called both backends.
C23_Witness ==
    /\ PalDone
    /\ lastOp.name = "Reset"
    /\ numDevices = 2
    /\ ReplicasPresent = {0, 1}
    /\ lastOp.startQuery = 1 /\ lastOp.queryCount = 2
    /\ Len(log) = 2

\* C23 witness: a GetResults of a pool of two replicas has called the
\* backend of replica 0 alone.
C23_WitnessGetResults ==
    /\ PalDone
    /\ lastOp.name = "GetResults"
    /\ numDevices = 2
    /\ ReplicasPresent = {0, 1}
    /\ Len(log) = 1 /\ log[1].dev = DefaultDeviceIndex

\* ------------------------------------------------------------------ Reset, replica by replica
\* a step of Reset on a timestamp pool that enters the loop over the replicas
ResetStep ==
    /\ pool.kind = "ts"
    /\ lastOp'.name = "Reset"
    /\ lastOp'.startQuery < pool.entryCount
\* the slot a word of the pool's memory belongs to
SlotOfWord(i) == ((i - 1) * SizeofU64) \div slotSize
\* the words of the slots [startQuery, min(startQuery + queryCount, entryCount))
InResetRange(i, startQuery, queryCount) ==
    /\ SlotOfWord(i) >= startQuery
    /\ SlotOfWord(i) < startQuery + queryCount
    /\ SlotOfWord(i) < pool.entryCount
\* the replicas whose Map succeeded / failed in the Reset that log' records
MappedIn(l) == {d \in Devices : HasEv(l, "Map", d, "ok")}
MapFailedIn(l) == {d \in Devices : HasEv(l, "Map", d, "fail")}

\* C24: a Reset that enters its loop maps every replica in turn, whatever the
\* earlier Maps returned; a replica whose Map failed is not unmapped and its
\* iteration stores nothing (with no successful Map the memory is
\* unchanged); every replica whose Map succeeded is unmapped, and with at
\* least one of them every word of the range holds TimestampNotReady
\* afterwards; no status is returned.
C24_ResetBestEffort ==
    [][ResetStep =>
          /\ MappedIn(log') \cup MapFailedIn(log') = Devices
          /\ MappedIn(log') \cap MapFailedIn(log') = {}
          /\ Len(log') = 2 * numDevices
          /\ \A d \in Devices :
                /\ log'[2 * d + 1].op = "Map" /\ log'[2 * d + 1].dev = d
                /\ log'[2 * d + 2] = Ev(IF d \in MappedIn(log') THEN "Unmap" ELSE "skip", d, "")
          /\ MappedIn(log') = {} => mem' = mem
          /\ MappedIn(log') # {} =>
                \A i \in 1..Len(mem) :
                    InResetRange(i, lastOp'.startQuery, lastOp'.queryCount) =>
                        mem'[i] = TimestampNotReady
          /\ result' = ""
          /\ held' = held]_vars

\* C24 witness: a Reset of both slots of a pool on two replicas whose Map
\* failed on replica 0 and succeeded on replica 1; both slots hold
\* TimestampNotReady.
C24_Witness ==
    /\ pool.kind = "ts"
    /\ pool.entryCount = 2
    /\ numDevices = 2
    /\ lastOp.name = "Reset" /\ lastOp.startQuery = 0 /\ lastOp.queryCount = 2
    /\ MapFailedIn(log) = {0}
    /\ MappedIn(log) = {1}
    /\ \A i \in 1..Len(mem) : mem[i] = TimestampNotReady

\* ------------------------------------------------------------------ the range of Reset
\* C25: a Reset with startQuery < m_entryCount whose Map succeeds on some
\* replica leaves TimestampNotReady in every word of the slots
\* [startQuery, min(startQuery + queryCount, m_entryCount)) and leaves every
\* other word as it was; the words it stores to all lie inside the pool's
\* memory (below m_entryCount * m_slotSize), for every queryCount.
C25_ResetExactRange ==
    [][ResetStep =>
          /\ ResetWordRange(pool.entryCount, slotSize, lastOp'.startQuery, lastOp'.queryCount)
                \subseteq 1..((pool.entryCount * slotSize) \div SizeofU64)
          /\ Len(mem') = Len(mem)
          /\ \A i \in 1..Len(mem) :
                IF InResetRange(i, lastOp'.startQuery, lastOp'.queryCount)
                THEN MappedIn(log') # {} => mem'[i] = TimestampNotReady
                ELSE mem'[i] = mem[i]]_vars

\* C25 witness: a Reset of two slots from slot 1 of a pool of two slots that
\* held values: the range is cut at the end of the pool, slot 0 keeps its
\* value and slot 1 holds TimestampNotReady.
C25_Witness ==
    /\ pool.kind = "ts"
    /\ pool.entryCount = 2
    /\ lastOp.name = "Reset" /\ lastOp.startQuery = 1 /\ lastOp.queryCount = 2
    /\ MappedIn(log) # {}
    /\ mem = <<BigValue, TimestampNotReady>>

\* ------------------------------------------------------------------ the pool of no slots
\* a timestamp pool of no slots has just been created
ZeroSlotCreated ==
    /\ pool.kind = "ts"
    /\ pool.entryCount = 0
    /\ lastOp.name = "Create"
\* the replicas whose descriptor record the Create zero-filled
ZeroFilled == {d \in Devices : HasEv(log, "memset", d, "bufferView")}

\* C26: a Create of a timestamp pool of no slots returned VK_SUCCESS, asked
\* for no GPU memory and zero-filled the descriptor record of every replica.
C26_ZeroSlotPool ==
    ZeroSlotCreated =>
        /\ result = VK_SUCCESS
        /\ ~HasOp(log, "AllocGpuMem")
        /\ ~pool.memAllocated
        /\ ZeroFilled = Devices

\* ------------------------------------------------------------------ the source words of GetResults
\* C27: every word a timestamp-pool GetResults reads is the word of a slot
\* of the pool, a slot index in [0, m_entryCount).  Taken for the calls that
\* start at a slot of the pool.
C27_ReadsInsidePool ==
    (pool.kind = "ts" /\ call.startQuery < pool.entryCount) =>
        \A i \in Examined :
            /\ ReadOf(i).off = (call.startQuery + i) * slotSize
            /\ call.startQuery + i < pool.entryCount
            /\ ReadOf(i).inside

\* ------------------------------------------------------------------ reads racing with the GPU and Reset
\* C28: with GPU writes and Resets between the reads of a GetResults, for
\* every slot the call has examined: it stored a value exactly if the word
\* it read last was not TimestampNotReady, the value stored is that word (in
\* the width of the call), the availability stored is 1 exactly if that
\* word was not TimestampNotReady, and the call returns VK_SUCCESS exactly
\* if every such word was not TimestampNotReady; and the word is what the
\* slot held when the call read it.
C28_ValueAndReadinessOneRead ==
    /\ [](pool.kind = "ts" =>
            /\ \A i \in Examined :
                  LET r == ReadOf(i)
                      ws == WritesOf(i)
                      ready == r.val # TimestampNotReady
                  IN /\ ready <=> (\E k \in 1..Len(ws) : ws[k].elem = 0)
                     /\ \A k \in 1..Len(ws) :
                           ws[k].val = (IF ws[k].elem = 0 THEN OutValue(r.val)
                                        ELSE OutBool(IF ready THEN 1 ELSE 0))
                     /\ \A k \in 1..Len(ws) :
                           ws[k].elem = 0 => ws[k].val # OutValue(TimestampNotReady)
            /\ (call.pc = "done" /\ lastOp.name = "GetResults") =>
                  (result = VK_SUCCESS
                     <=> \A i \in Examined : ReadOf(i).val # TimestampNotReady))
    /\ [][(InLoop /\ call'.dstSlot = call.dstSlot + 1 /\ SlotInside(call.dstSlot)) =>
              call'.reads[Len(call'.reads)].val = mem[SlotWord(call.dstSlot)]]_vars

\* C28 witness: a GetResults with availability read slot 0 after the GPU
\* wrote it, a Reset then put TimestampNotReady back into slot 0 while the
\* call was in its loop, and the call returned with the value it had read.
C28_Witness ==
    /\ TsDone
    /\ Flag(VK_QUERY_RESULT_WITH_AVAILABILITY_BIT)
    /\ pool.entryCount = 2
    /\ Len(call.reads) = 2
    /\ call.startQuery = 0
    /\ ReadOf(0).val # TimestampNotReady
    /\ mem[1] = TimestampNotReady
    /\ WritesOf(0)[1].val = OutValue(ReadOf(0).val)

\* ------------------------------------------------------------------ read-back and the pool
\* a step of GetResults of either variant: the call enters, or its loop
\* moves past a slot
GetResultsStep ==
    \/ call.pc = "idle" /\ call'.pc # "idle" /\ lastOp'.name = "GetResults"
    \/ call.pc = "loop" /\ call'.dstSlot = call.dstSlot + 1
\* the pool's memory holds what the returned call read from it
MemoryAsRead == \A i \in Examined : ReadOf(i).inside => ReadOf(i).val = mem[SlotWord(i)]
\* What the loop of TimestampQueryPool::GetResults can return from slot i on,
\* run again now with the arguments of the returned call: the set of
\* [result, writes].  A word outside the mapped memory holds an arbitrary
\* value; with WAIT the loop leaves a slot only with a value other than
\* TimestampNotReady.
RECURSIVE RunAgain(_, _, _)
RunAgain(i, allReady, ws) ==
    IF i >= call.queryCount
    THEN {[result |-> TimestampResult(allReady), writes |-> ws]}
    ELSE UNION {RunAgain(i + 1, TrackAllReady(allReady, v # TimestampNotReady),
                         ws \o SlotWrites(i, call.stride, call.flags, v,
                                          v # TimestampNotReady)) :
                  v \in {u \in (IF SlotInside(i) THEN {mem[SlotWord(i)]} ELSE Values) :
                           ~KeepsPolling(call.flags, u # TimestampNotReady)}}

\* C29: no step of a GetResults of either variant changes a word of the
\* pool's memory, the resources held, the pool or its handle; and a
\* timestamp-pool GetResults run again with the same arguments right after
\* one that returned, the memory being as that one read it, returns the same
\* status and makes the same stores.  The second part is taken for the
\* calls that start at a slot of the pool.
C29_ReadBackSideEffectFree ==
    /\ [][GetResultsStep =>
              (mem' = mem /\ held' = held /\ pool' = pool /\ handle' = handle)]_vars
    /\ []((/\ TsDone
            /\ lastOp.name = "GetResults"
            /\ call.startQuery < pool.entryCount
            /\ MemoryAsRead) =>
              RunAgain(0, TRUE, <<>>) = {[result |-> result, writes |-> writes]})

====
